---- MODULE Spec2Model ----
(***************************************************************************)
(* Model of black_hole_rs (src/src/main.rs): the orbit camera and its      *)
(* input handlers, the process-wide Gravity flag, the GPU program builder  *)
(* used by Engine::new, and the render loop of main.                       *)
(*                                                                         *)
(* Numbers.  f64 angles are modelled as integers in units of 1e-4 rad,     *)
(* f64 lengths in units of 1e5 m, pointer coordinates in whole pixels and  *)
(* scroll offsets in whole notches; every product and sum the handlers     *)
(* compute is then exact.  Non-finite arguments (NaN, infinities) are not  *)
(* modelled.                                                               *)
(***************************************************************************)
EXTENDS Integers, Sequences, FiniteSets, TLC

VARIABLES
    camera,        \* the Camera struct
    Gravity,       \* static mut Gravity
    stdout,        \* last line printed by process_key ("" when none yet)
    input,         \* the input event most recently delivered to a handler
    fs,            \* file-content provider: path -> "absent"|"invalid"|"valid"
    gl,            \* GL objects: live shaders, live programs, next object name
    ubos,          \* uniform buffers: binding point -> [buffer, size]
    engine,        \* the Engine value returned by Engine::new, or NoEngine
    panic,         \* the panic that aborted the process, or NoPanic
    pc,            \* position of the running entry point
    window,        \* [created, should_close] of the GLFW window
    events,        \* window events received by poll_events, not yet flushed
    frame_ops,     \* device/window calls issued so far in the current frame
    frames         \* number of loop iterations started

vars == <<camera, Gravity, stdout, input, fs, gl, ubos, engine, panic, pc,
          window, events, frame_ops, frames>>

camVars  == <<camera, Gravity, stdout, input>>
gpuVars  == <<fs, gl, ubos, engine, panic>>
loopVars == <<window, events, frame_ops, frames>>

----------------------------------------------------------------------------
\* Bounds of the exploration

MaxAzimuth == 1         \* |azimuth| explored, in whole radians
MaxEvents  == 2         \* window events one poll_events call may deliver
MaxFrames  == 2         \* loop iterations explored

XCoords  == {0, 100}            \* pointer x positions, pixels
YCoords  == {0, 200}            \* pointer y positions, pixels
YOffsets == {-40, 20}           \* scroll notches
XOffsets == {0}                 \* horizontal scroll, unused by the handler

----------------------------------------------------------------------------
\* Constants of the program

PI == 31416              \* std::f64::consts::PI, 1e-4 rad
ElevationEps == 100      \* the literal 0.01 of the elevation clamp, 1e-4 rad

MouseButtons == {"Left", "Middle", "Right"}
Actions      == {"Press", "Release", "Repeat"}
Keys         == {"Escape", "G", "A"}

NoInput == [kind |-> "none", id |-> "", action |-> "", x |-> 0, y |-> 0]

----------------------------------------------------------------------------
\* Camera

Origin == <<0, 0, 0>>

Camera_new ==
    [target |-> Origin, radius |-> 634194, min_radius |-> 100000,
     max_radius |-> 10000000,
     azimuth |-> 0, elevation |-> PI \div 2,
     orbit_speed |-> 100, pan_speed |-> 100, zoom_speed |-> 250000,
     dragging |-> FALSE, panning |-> FALSE, moving |-> FALSE,
     last_x |-> 0, last_y |-> 0]

\* glm::clamp(x, min_val, max_val) = min(max(x, min_val), max_val)
clamp(x, lo, hi) ==
    LET m == IF x < lo THEN lo ELSE x
    IN  IF m > hi THEN hi ELSE m

\* update that lets a pan gesture translate the focus point
update_pans_target(cam) ==
    [cam EXCEPT !.target = IF cam.dragging THEN <<cam.last_x, cam.last_y, 0>>
                           ELSE cam.target,
                !.moving = IF cam.dragging \/ cam.panning THEN TRUE ELSE FALSE]

update(cam) ==
    [cam EXCEPT !.target = Origin,
                !.moving = IF cam.dragging \/ cam.panning THEN TRUE ELSE FALSE]

\* process_mouse_move without the elevation clamp
process_mouse_move_unclamped(cam, x, y) ==
    LET dx == x - cam.last_x
        dy == y - cam.last_y
        orbited ==
            IF cam.dragging /\ ~cam.panning THEN
                [cam EXCEPT !.azimuth = cam.azimuth + dx * cam.orbit_speed,
                            !.elevation = cam.elevation - dy * cam.orbit_speed]
            ELSE cam
    IN  update([orbited EXCEPT !.last_x = x, !.last_y = y])

\* process_mouse_move with the azimuth sign reversed
process_mouse_move_reversed(cam, x, y) ==
    LET dx == x - cam.last_x
        dy == y - cam.last_y
        orbited ==
            IF cam.dragging /\ ~cam.panning THEN
                [cam EXCEPT !.azimuth = cam.azimuth - dx * cam.orbit_speed,
                            !.elevation =
                                clamp(cam.elevation - dy * cam.orbit_speed,
                                      ElevationEps, PI - ElevationEps)]
            ELSE cam
    IN  update([orbited EXCEPT !.last_x = x, !.last_y = y])

process_mouse_move(cam, x, y) ==
    LET dx == x - cam.last_x
        dy == y - cam.last_y
        orbited ==
            IF cam.dragging /\ cam.panning THEN cam
            ELSE IF cam.dragging /\ ~cam.panning THEN
                [cam EXCEPT !.azimuth = cam.azimuth + dx * cam.orbit_speed,
                            !.elevation =
                                clamp(cam.elevation - dy * cam.orbit_speed,
                                      ElevationEps, PI - ElevationEps)]
            ELSE cam
    IN  update([orbited EXCEPT !.last_x = x, !.last_y = y])

\* the Camera part of process_mouse_button; cursor is win.get_cursor_pos()
process_mouse_button(cam, button, action, cursor) ==
    IF button = "Left" \/ button = "Middle" THEN
        IF action = "Press" THEN
            [cam EXCEPT !.dragging = TRUE, !.panning = FALSE,
                        !.last_x = cursor[1], !.last_y = cursor[2]]
        ELSE IF action = "Release" THEN
            [cam EXCEPT !.dragging = FALSE, !.panning = FALSE]
        ELSE cam
    ELSE cam

\* a right button that inverts the flag on press and on release
process_mouse_button_Gravity_toggle(g, button, action) ==
    IF button = "Right" /\ action \in {"Press", "Release"} THEN ~g ELSE g

\* the Gravity part of process_mouse_button
process_mouse_button_Gravity(g, button, action) ==
    IF button = "Right" THEN
        IF action = "Press" THEN TRUE
        ELSE IF action = "Release" THEN FALSE
        ELSE g
    ELSE g

process_scroll(cam, xoffset, yoffset) ==
    update([cam EXCEPT !.radius =
                clamp(cam.radius - yoffset * cam.zoom_speed,
                      cam.min_radius, cam.max_radius)])

\* process_key that ignores the action of the key event
process_key_any_action(g, key, action) ==
    IF key = "G"
    THEN [Gravity |-> ~g, printed |-> IF ~g THEN "ON" ELSE "OFF"]
    ELSE [Gravity |-> g, printed |-> ""]

\* process_key: the new Gravity and the line printed ("" when nothing is)
process_key(g, key, action) ==
    IF action = "Press" /\ key = "G"
    THEN [Gravity |-> ~g, printed |-> IF ~g THEN "ON" ELSE "OFF"]
    ELSE [Gravity |-> g, printed |-> ""]

Abs(n) == IF n < 0 THEN -n ELSE n

MouseMove ==
    \E x \in XCoords, y \in YCoords :
        /\ Abs(process_mouse_move(camera, x, y).azimuth) <= MaxAzimuth * 10000
        /\ camera' = process_mouse_move(camera, x, y)
        /\ input' = [kind |-> "move", id |-> "", action |-> "", x |-> x, y |-> y]
        /\ UNCHANGED <<Gravity, stdout>>

\* win.get_cursor_pos() is read only by a Left/Middle press
ReadsCursor(button, action) ==
    (button = "Left" \/ button = "Middle") /\ action = "Press"

MouseButton ==
    \E button \in MouseButtons, action \in Actions,
       cx \in XCoords, cy \in YCoords :
        /\ ReadsCursor(button, action) \/ (cx = 0 /\ cy = 0)
        /\ camera' = process_mouse_button(camera, button, action, <<cx, cy>>)
        /\ Gravity' = process_mouse_button_Gravity(Gravity, button, action)
        /\ input' = [kind |-> "button", id |-> button, action |-> action,
                     x |-> cx, y |-> cy]
        /\ UNCHANGED stdout

Scroll ==
    \E xoffset \in XOffsets, yoffset \in YOffsets :
        /\ camera' = process_scroll(camera, xoffset, yoffset)
        /\ input' = [kind |-> "scroll", id |-> "", action |-> "",
                     x |-> xoffset, y |-> yoffset]
        /\ UNCHANGED <<Gravity, stdout>>

KeyInput ==
    \E key \in Keys, action \in Actions :
        /\ Gravity' = process_key(Gravity, key, action).Gravity
        /\ stdout' = IF process_key(Gravity, key, action).printed = ""
                     THEN stdout
                     ELSE process_key(Gravity, key, action).printed
        /\ input' = [kind |-> "key", id |-> key, action |-> action,
                     x |-> 0, y |-> 0]
        /\ UNCHANGED camera

----------------------------------------------------------------------------
\* GPU objects and the file-content provider

Paths == {"./shaders/main_vs.glsl", "./shaders/main_fs.glsl",
          "./shaders/geodesic_cs.glsl",
          "./shaders/grid_vs.glsl", "./shaders/grid_fs.glsl"}

Contents == {"absent", "invalid", "valid"}

NoPanic  == [kind |-> "none", message |-> <<>>, shader_type |-> ""]
NoWindow == [created |-> FALSE, should_close |-> FALSE]
EmptyGL  == [shaders |-> {}, programs |-> {}, buffers |-> {},
             vaos |-> {}, textures |-> {}, next |-> 1]

\* the locals of Engine::new, which become the fields of the Engine it returns
NoEngine ==
    [built |-> FALSE, shader_program |-> 0, compute_program |-> 0,
     grid_shader_program |-> 0, camera_ubo |-> 0, disk_ubo |-> 0,
     objects_ubo |-> 0, quad_vao |-> 0, texture |-> 0,
     win_width |-> 800, win_height |-> 600,
     compute_width |-> 200, compute_height |-> 150]

\* read(file): the content, or the panic raised when the file cannot be read
read(files, file) ==
    IF files[file] = "absent"
    THEN [panic |-> [kind |-> "file", message |-> <<file>>, shader_type |-> ""],
          content |-> ""]
    ELSE [panic |-> NoPanic, content |-> files[file]]

\* compile_shader: CreateShader, ShaderSource, CompileShader, status check
compile_shader(g, shader_type, shader_source) ==
    LET shader  == g.next
        created == [g EXCEPT !.shaders = @ \cup {[id |-> shader,
                                                  type |-> shader_type]},
                             !.next = @ + 1]
    IN  IF shader_source # "valid"
        THEN [gl |-> created,
              panic |-> [kind |-> "compile",
                         message |-> <<"ERROR", "SHADER", "VERTEX",
                                       "COMPILATION_FAILED">>,
                         shader_type |-> shader_type],
              result |-> 0]
        ELSE [gl |-> created, panic |-> NoPanic, result |-> shader]

DeleteShader(g, shader) ==
    [g EXCEPT !.shaders = {s \in @ : s.id # shader}]

CreateProgram(g) ==
    [g EXCEPT !.programs = @ \cup {g.next}, !.next = @ + 1]

\* link_ok is the LINK_STATUS the driver reports for the attached stages
create_shader_program(g, files, verter_path, frag_path, link_ok) ==
    LET vsrc == read(files, verter_path)
        fsrc == read(files, frag_path)
        vs   == compile_shader(g, "VERTEX_SHADER", vsrc.content)
        fsh  == compile_shader(vs.gl, "FRAGMENT_SHADER", fsrc.content)
        sharder_program == fsh.gl.next
        linked == CreateProgram(fsh.gl)
    IN  IF vsrc.panic # NoPanic THEN [gl |-> g, panic |-> vsrc.panic, result |-> 0]
        ELSE IF fsrc.panic # NoPanic
             THEN [gl |-> g, panic |-> fsrc.panic, result |-> 0]
        ELSE IF vs.panic # NoPanic THEN vs
        ELSE IF fsh.panic # NoPanic THEN fsh
        ELSE IF ~link_ok
             THEN [gl |-> linked,
                   panic |-> [kind |-> "link",
                              message |-> <<"Shader link error">>,
                              shader_type |-> ""],
                   result |-> 0]
        ELSE [gl |-> DeleteShader(DeleteShader(linked, vs.result), fsh.result),
              panic |-> NoPanic, result |-> sharder_program]

\* create_compute_program that forgets to delete the compute stage
create_compute_program_keeps_stage(g, files, path, link_ok) ==
    LET src  == read(files, path)
        cs   == compile_shader(g, "COMPUTE_SHADER", src.content)
        prog == cs.gl.next
        linked == CreateProgram(cs.gl)
    IN  IF src.panic # NoPanic THEN [gl |-> g, panic |-> src.panic, result |-> 0]
        ELSE IF cs.panic # NoPanic THEN cs
        ELSE IF ~link_ok
             THEN [gl |-> linked,
                   panic |-> [kind |-> "link",
                              message |-> <<"Compute shader link error">>,
                              shader_type |-> ""],
                   result |-> 0]
        ELSE [gl |-> linked, panic |-> NoPanic, result |-> prog]

create_compute_program(g, files, path, link_ok) ==
    LET src  == read(files, path)
        cs   == compile_shader(g, "COMPUTE_SHADER", src.content)
        prog == cs.gl.next
        linked == CreateProgram(cs.gl)
    IN  IF src.panic # NoPanic THEN [gl |-> g, panic |-> src.panic, result |-> 0]
        ELSE IF cs.panic # NoPanic THEN cs
        ELSE IF ~link_ok
             THEN [gl |-> linked,
                   panic |-> [kind |-> "link",
                              message |-> <<"Compute shader link error">>,
                              shader_type |-> ""],
                   result |-> 0]
        ELSE [gl |-> DeleteShader(linked, cs.result),
              panic |-> NoPanic, result |-> prog]

\* quad_vao: one vertex array, one vertex buffer, one texture
quad_vao(g, compute_width, compute_height) ==
    [gl |-> [g EXCEPT !.vaos = @ \cup {g.next},
                      !.buffers = @ \cup {g.next + 1},
                      !.textures = @ \cup {[id |-> g.next + 2,
                                            width |-> compute_width,
                                            height |-> compute_height]},
                      !.next = @ + 3],
     result |-> <<g.next, g.next + 2>>]

\* bytes of the Objects block: count + padding + 16 records + 16 masses
obj_ubosize == 4 + 3 * 4 + 16 * (4 * 4 + 4 * 4) + 16 * 4

----------------------------------------------------------------------------
\* Engine::new, one step per call it makes

\* a build either returns its program or panics
AfterBuild(built, field, nextpc) ==
    /\ gl' = built.gl
    /\ panic' = built.panic
    /\ IF built.panic = NoPanic
       THEN engine' = [engine EXCEPT ![field] = built.result] /\ pc' = nextpc
       ELSE engine' = engine /\ pc' = "panicked"

E_CreateContext ==
    /\ pc = "Engine::new"
    /\ \E ok \in BOOLEAN :
        IF ok
        THEN /\ window' = [window EXCEPT !.created = TRUE]
             /\ pc' = "shader_program"
             /\ panic' = panic
        ELSE /\ window' = window
             /\ pc' = "panicked"
             /\ panic' = [kind |-> "glfw",
                          message |-> <<"Failed to create GLFW window.">>,
                          shader_type |-> ""]
    /\ UNCHANGED <<fs, gl, ubos, engine>>

E_ShaderProgram ==
    /\ pc = "shader_program"
    /\ \E link_ok \in BOOLEAN :
        AfterBuild(create_shader_program(gl, fs, "./shaders/main_vs.glsl",
                                         "./shaders/main_fs.glsl", link_ok),
                   "shader_program", "compute_program")
    /\ UNCHANGED <<fs, ubos, window>>

E_ComputeProgram ==
    /\ pc = "compute_program"
    /\ \E link_ok \in BOOLEAN :
        AfterBuild(create_compute_program(gl, fs, "./shaders/geodesic_cs.glsl",
                                          link_ok),
                   "compute_program", "grid_shader_program")
    /\ UNCHANGED <<fs, ubos, window>>

E_GridShaderProgram ==
    /\ pc = "grid_shader_program"
    /\ \E link_ok \in BOOLEAN :
        AfterBuild(create_shader_program(gl, fs, "./shaders/grid_vs.glsl",
                                         "./shaders/grid_fs.glsl", link_ok),
                   "grid_shader_program", "ubos")
    /\ UNCHANGED <<fs, ubos, window>>

E_UniformBuffers ==
    /\ pc = "ubos"
    /\ gl' = [gl EXCEPT !.buffers = @ \cup {gl.next, gl.next + 1, gl.next + 2},
                        !.next = @ + 3]
    /\ ubos' = (1 :> [buffer |-> gl.next, size |-> 128]) @@
               (2 :> [buffer |-> gl.next + 1, size |-> 4 * 4]) @@
               (3 :> [buffer |-> gl.next + 2, size |-> obj_ubosize])
    /\ engine' = [engine EXCEPT !.camera_ubo = gl.next,
                                !.disk_ubo = gl.next + 1,
                                !.objects_ubo = gl.next + 2]
    /\ pc' = "quad_vao"
    /\ UNCHANGED <<fs, panic, window>>

E_QuadVao ==
    /\ pc = "quad_vao"
    /\ LET q == quad_vao(gl, engine.compute_width, engine.compute_height)
       IN  /\ gl' = q.gl
           /\ engine' = [engine EXCEPT !.quad_vao = q.result[1],
                                       !.texture = q.result[2],
                                       !.built = TRUE]
    /\ pc' = "returned"
    /\ UNCHANGED <<fs, ubos, panic, window>>

----------------------------------------------------------------------------
\* main and handle_window_event

\* only key polling is enabled on the window (set_key_polling)
KeyEvent(key, action) ==
    [kind |-> "key", id |-> key, action |-> action, x |-> 0, y |-> 0]

KeyEvents == {KeyEvent(k, a) : k \in Keys, a \in Actions}

RECURSIVE Batches(_)
Batches(n) ==
    IF n = 0 THEN {<<>>}
    ELSE Batches(n - 1) \cup
         {Append(b, e) : b \in {c \in Batches(n - 1) : Len(c) = n - 1},
                         e \in KeyEvents}

\* handle_window_event that closes the window on any key press
handle_window_event_any_key(win, event) ==
    IF event.kind = "key" /\ event.action = "Press"
    THEN [win EXCEPT !.should_close = TRUE]
    ELSE win

handle_window_event(win, event) ==
    IF event.kind = "key" /\ event.id = "Escape" /\ event.action = "Press"
    THEN [win EXCEPT !.should_close = TRUE]
    ELSE win

M_CreateContext ==
    /\ pc = "main"
    /\ \E ok \in BOOLEAN :
        IF ok
        THEN /\ window' = [window EXCEPT !.created = TRUE]
             /\ pc' = "gl_state"
             /\ panic' = panic
        ELSE /\ window' = window
             /\ pc' = "panicked"
             /\ panic' = [kind |-> "glfw",
                          message |-> <<"Failed to create GLFW window.">>,
                          shader_type |-> ""]
    /\ UNCHANGED <<input, events, frame_ops, frames>>

M_GlState ==
    /\ pc = "gl_state"
    /\ pc' = "while"
    /\ UNCHANGED <<window, panic, input, events, frame_ops, frames>>

M_While ==
    /\ pc = "while"
    /\ IF ~window.should_close
       THEN /\ frames < MaxFrames
            /\ frames' = frames + 1
            /\ frame_ops' = <<>>
            /\ pc' = "poll_events"
       ELSE /\ pc' = "exit"
            /\ UNCHANGED <<frames, frame_ops>>
    /\ UNCHANGED <<window, panic, input, events>>

\* poll_events queues the key events that arrived; a close request made
\* through the window system sets the window's close flag
M_PollEvents ==
    /\ pc = "poll_events"
    /\ \E batch \in Batches(MaxEvents), close_signal \in BOOLEAN :
        /\ events' = batch
        /\ window' = [window EXCEPT !.should_close = @ \/ close_signal]
    /\ frame_ops' = Append(frame_ops, "poll_events")
    /\ pc' = "flush_messages"
    /\ UNCHANGED <<panic, input, frames>>

M_HandleEvent ==
    /\ pc = "flush_messages"
    /\ events # <<>>
    /\ window' = handle_window_event(window, Head(events))
    /\ input' = Head(events)
    /\ events' = Tail(events)
    /\ UNCHANGED <<pc, panic, frame_ops, frames>>

M_Clear ==
    /\ pc = "flush_messages"
    /\ events = <<>>
    /\ frame_ops' = Append(frame_ops, "Clear")
    /\ pc' = "swap_buffers"
    /\ UNCHANGED <<window, panic, input, events, frames>>

M_SwapBuffers ==
    /\ pc = "swap_buffers"
    /\ frame_ops' = Append(frame_ops, "swap_buffers")
    /\ pc' = "while"
    /\ UNCHANGED <<window, panic, input, events, frames>>

----------------------------------------------------------------------------
\* Specifications

AllValid  == [p \in Paths |-> "valid"]
AllAbsent == [p \in Paths |-> "absent"]

InitCommon ==
    /\ camera = Camera_new
    /\ Gravity = FALSE
    /\ stdout = ""
    /\ input = NoInput
    /\ gl = EmptyGL
    /\ ubos = <<>>
    /\ engine = NoEngine
    /\ panic = NoPanic
    /\ window = NoWindow
    /\ events = <<>>
    /\ frame_ops = <<>>
    /\ frames = 0

\* The camera driven by an arbitrary stream of input events
InitCamera == InitCommon /\ fs = AllValid /\ pc = "camera"

NextCamera ==
    \/ MouseMove /\ UNCHANGED <<gpuVars, loopVars, pc>>
    \/ MouseButton /\ UNCHANGED <<gpuVars, loopVars, pc>>
    \/ Scroll /\ UNCHANGED <<gpuVars, loopVars, pc>>
    \/ KeyInput /\ UNCHANGED <<gpuVars, loopVars, pc>>

SpecCamera == InitCamera /\ [][NextCamera]_vars

\* Engine::new run against every state of the shader files
InitEngine == InitCommon /\ fs \in [Paths -> Contents] /\ pc = "Engine::new"

NextEngine ==
    \/ E_CreateContext /\ UNCHANGED <<camVars, events, frame_ops, frames>>
    \/ E_ShaderProgram /\ UNCHANGED <<camVars, events, frame_ops, frames>>
    \/ E_ComputeProgram /\ UNCHANGED <<camVars, events, frame_ops, frames>>
    \/ E_GridShaderProgram /\ UNCHANGED <<camVars, events, frame_ops, frames>>
    \/ E_UniformBuffers /\ UNCHANGED <<camVars, events, frame_ops, frames>>
    \/ E_QuadVao /\ UNCHANGED <<camVars, events, frame_ops, frames>>

SpecEngine == InitEngine /\ [][NextEngine]_vars

\* main, as the process runs it
InitMain == InitCommon /\ fs \in {AllValid, AllAbsent} /\ pc = "main"

NextMain ==
    \/ M_CreateContext /\ UNCHANGED <<camera, Gravity, stdout, fs, gl, ubos, engine>>
    \/ M_GlState /\ UNCHANGED <<camera, Gravity, stdout, fs, gl, ubos, engine>>
    \/ M_While /\ UNCHANGED <<camera, Gravity, stdout, fs, gl, ubos, engine>>
    \/ M_PollEvents /\ UNCHANGED <<camera, Gravity, stdout, fs, gl, ubos, engine>>
    \/ M_HandleEvent /\ UNCHANGED <<camera, Gravity, stdout, fs, gl, ubos, engine>>
    \/ M_Clear /\ UNCHANGED <<camera, Gravity, stdout, fs, gl, ubos, engine>>
    \/ M_SwapBuffers /\ UNCHANGED <<camera, Gravity, stdout, fs, gl, ubos, engine>>

SpecMain == InitMain /\ [][NextMain]_vars

----------------------------------------------------------------------------
\* Properties of the camera and the Gravity flag (SpecCamera)

\* C1: after any sequence of move, button and scroll events the elevation
\* stays within [0.01, pi - 0.01] and the radius within
\* [min_radius, max_radius] = [1e10, 1e12].
C1_ElevationAndRadiusInRange ==
    /\ camera.elevation >= ElevationEps
    /\ camera.elevation <= PI - ElevationEps
    /\ camera.min_radius = 100000 /\ camera.max_radius = 10000000
    /\ camera.radius >= camera.min_radius
    /\ camera.radius <= camera.max_radius

\* a drag has just pushed the elevation onto its upper limit while the
\* radius sits on its upper limit after a scroll
C1_Witness ==
    /\ input.kind = "move" /\ camera.dragging
    /\ camera.elevation = PI - ElevationEps
    /\ camera.radius = camera.max_radius

RightButtonEvent(act) ==
    input'.kind = "button" /\ input'.id = "Right" /\ input'.action = act

\* C2 (as stated): every right-button press and every right-button release
\* leaves the Gravity flag the negation of what it was before the event.
C2_RightButtonToggles ==
    [][(RightButtonEvent("Press") \/ RightButtonEvent("Release"))
         => Gravity' = ~Gravity]_vars

\* C2 (amended): a right-button press leaves the Gravity flag TRUE and a
\* right-button release leaves it FALSE, whatever it was before.
C2_RightButtonSets ==
    [][/\ RightButtonEvent("Press") => Gravity' = TRUE
       /\ RightButtonEvent("Release") => Gravity' = FALSE]_vars

\* the right button was pressed after the 'G' key had switched Gravity on
C2_Witness ==
    /\ input.kind = "button" /\ input.id = "Right" /\ input.action = "Press"
    /\ stdout = "ON" /\ Gravity

\* C8: a pointer move to (x, y) while dragging and not panning adds
\* dx * orbit_speed to the azimuth and subtracts dy * orbit_speed from the
\* elevation (then clamps it); otherwise both are unchanged; the last pointer
\* position becomes (x, y), the radius is unchanged and moving becomes
\* (dragging or panning).  Press at (0,0) then move to (100,0) from the
\* default camera gives azimuth 1.0.
C8_PointerMove ==
    [][input'.kind = "move" =>
        LET dx == input'.x - camera.last_x
            dy == input'.y - camera.last_y
        IN  /\ IF camera.dragging /\ ~camera.panning
               THEN /\ camera'.azimuth = camera.azimuth + dx * camera.orbit_speed
                    /\ camera'.elevation =
                         clamp(camera.elevation - dy * camera.orbit_speed,
                               ElevationEps, PI - ElevationEps)
               ELSE /\ camera'.azimuth = camera.azimuth
                    /\ camera'.elevation = camera.elevation
            /\ camera'.last_x = input'.x /\ camera'.last_y = input'.y
            /\ camera'.radius = camera.radius
            /\ camera'.moving = (camera.dragging \/ camera.panning)
            /\ camera'.dragging = camera.dragging
            /\ (/\ camera.dragging /\ camera.azimuth = 0
                /\ camera.last_x = 0 /\ camera.last_y = 0
                /\ input'.x = 100 /\ input'.y = 0)
               => camera'.azimuth = 10000]_vars

\* the drag from (0,0) to (100,0) has turned the camera to azimuth 1.0
C8_Witness ==
    /\ input = [kind |-> "move", id |-> "", action |-> "", x |-> 100, y |-> 0]
    /\ camera.dragging /\ camera.moving
    /\ camera.azimuth = 10000 /\ camera.elevation = PI \div 2

\* C9: a 'G' key event with action Press inverts the Gravity flag and prints
\* the new value; any other key event leaves the flag unchanged.
C9_KeyGToggles ==
    [][input'.kind = "key" =>
        IF input'.id = "G" /\ input'.action = "Press"
        THEN /\ Gravity' = ~Gravity
             /\ stdout' = IF Gravity' THEN "ON" ELSE "OFF"
        ELSE /\ Gravity' = Gravity
             /\ stdout' = stdout]_vars

\* 'G' has switched off a flag that was on
C9_Witness ==
    /\ input.kind = "key" /\ input.id = "G" /\ input.action = "Press"
    /\ ~Gravity /\ stdout = "OFF"

\* C10: the camera's focus point is the origin in every reachable state.
C10_TargetAtOrigin == camera.target = Origin

\* a drag away from the origin of the screen has orbited the camera
C10_Witness ==
    /\ input.kind = "move" /\ camera.dragging
    /\ camera.last_x # 0 /\ camera.azimuth # 0
    /\ camera.target = Origin
----------------------------------------------------------------------------
\* Properties of the GPU program builder (SpecEngine)

\* C3 (as stated): whenever a build has stopped, by returning a program or by
\* a compile or link failure, no stage object it created is left allocated.
C3_StagesFreedOnEveryOutcome == gl.shaders = {}

\* C3 (amended): when a build returns a linked program every stage object it
\* created has been deleted; when it stops on a compile or link failure the
\* stage objects it created are still allocated.
C3_StagesFreedOnSuccess ==
    /\ panic = NoPanic => gl.shaders = {}
    /\ panic.kind \in {"compile", "link"} => gl.shaders # {}

\* the raster and the compute program have both been built and returned
C3_Witness ==
    /\ engine.shader_program # 0 /\ engine.compute_program # 0
    /\ engine.shader_program \in gl.programs
    /\ engine.compute_program \in gl.programs
    /\ panic = NoPanic /\ gl.shaders = {}

StageTag(shader_type) ==
    CASE shader_type = "VERTEX_SHADER"   -> "VERTEX"
      [] shader_type = "FRAGMENT_SHADER" -> "FRAGMENT"
      [] shader_type = "COMPUTE_SHADER"  -> "COMPUTE"

\* C4: a compile failure is reported with the tag of the stage that failed
\* (an invalid compute source with the tag of the compute stage), and the
\* build returns no program.
C4_CompileErrorNamesStage ==
    panic.kind = "compile" =>
        /\ panic.message[3] = StageTag(panic.shader_type)
        /\ panic.shader_type = "COMPUTE_SHADER" => engine.compute_program = 0

----------------------------------------------------------------------------
\* Properties of main (SpecMain)

InLoop == pc \in {"poll_events", "flush_messages", "swap_buffers"}

\* C5: the render loop runs only after the device context, the raster and
\* the compute program, the uniform blocks at bindings 1, 2 and 3 and the
\* frame target all exist; when a step fails no iteration executes.
C5_RunningOnlyAfterInitializing ==
    InLoop =>
        /\ window.created
        /\ engine.built
        /\ engine.shader_program \in gl.programs
        /\ engine.compute_program \in gl.programs
        /\ DOMAIN ubos = {1, 2, 3}
        /\ engine.quad_vao \in gl.vaos
        /\ \A p \in Paths : fs[p] = "valid"

\* C6: in every frame the input is polled and dispatched, the Camera block
\* written, the compute program dispatched, the frame target drawn and the
\* frame presented, in this order; every present follows a draw of the same
\* frame and every draw a compute dispatch.
C6_FrameOrder ==
    /\ \A i \in DOMAIN frame_ops :
        frame_ops[i] = "swap_buffers" =>
            \E j \in 1..(i - 1) : frame_ops[j] = "DrawArrays"
    /\ \A i \in DOMAIN frame_ops :
        frame_ops[i] = "DrawArrays" =>
            \E j \in 1..(i - 1) : frame_ops[j] = "DispatchCompute"
    /\ (pc = "while" /\ frames > 0) =>
        frame_ops = <<"poll_events", "BufferSubData", "DispatchCompute",
                      "DrawArrays", "swap_buffers">>

EscapePress == KeyEvent("Escape", "Press")

Delivering(event) ==
    pc = "flush_messages" /\ events # <<>> /\ Head(events) = event

\* C7: an Escape press delivered to the handler sets the close flag; the flag
\* is never cleared; it is set by nothing but an Escape press or a close
\* request of the window system; once it is set the loop starts no further
\* frame, and the loop ends only with the flag set and the frame presented.
C7_CloseEndsLoop ==
    [][/\ Delivering(EscapePress) => window'.should_close
       /\ window.should_close => window'.should_close
       /\ (~window.should_close /\ window'.should_close) =>
            (pc = "poll_events" \/ Delivering(EscapePress))
       /\ frames' # frames => ~window.should_close
       /\ (pc' = "exit" /\ pc # "exit") =>
            /\ window.should_close
            /\ frame_ops # <<>>
            /\ frame_ops[Len(frame_ops)] = "swap_buffers"]_vars

\* the loop has ended after an Escape press was handled
C7_Witness ==
    /\ pc = "exit" /\ input = EscapePress
    /\ window.should_close /\ frames >= 1
====
